---- MODULE Spec2Model ----
(***************************************************************************)
(* The CountryFilter component (ui/src/components/CountryFilter.jsx) and   *)
(* the Apollo client it reads through (ui/src/lib/apollo.js).              *)
(*                                                                         *)
(* Program state: the value useQuery returns to the mounted component      *)
(* (loading, error, data), the component's selectedCountry, the            *)
(* process-wide InMemoryCache entry of the one fixed query, and the        *)
(* outstanding HTTP request.  The render function and the event handler    *)
(* are translated from the component; the hook's life cycle (mount,        *)
(* response, unmount) is the environment, driven by the options the        *)
(* repository passes to Apollo: no fetchPolicy (so cache-first), and       *)
(* errorPolicy 'all'.  The component passes no pollInterval and never      *)
(* calls refetch, so a mounted instance receives at most one result.       *)
(***************************************************************************)
EXTENDS Naturals, Sequences, FiniteSets, TLC

\* Bounds of the model.
MaxRows == 2
MaxCalls == 2

-----------------------------------------------------------------------------
\* JavaScript values the component handles.
Undefined == [tag |-> "undefined", str |-> "", num |-> 0]
Str(s) == [tag |-> "string", str |-> s, num |-> 0]
Num(n) == [tag |-> "number", str |-> "", num |-> n]

\* JavaScript truthiness, as used by `selectedCountry &&` and `|| 0`.
Truthy(v) ==
    \/ v.tag = "string" /\ v.str # ""
    \/ v.tag = "number" /\ v.num # 0

\* a || b
JsOr(a, b) == IF Truthy(a) THEN a ELSE b

-----------------------------------------------------------------------------
\* What the backend can answer.
CountryNames == {"", "USA", "France"}
FaultMessages == {"network unreachable", "Unexpected token < in JSON"}
BackendMessages == {"Cannot query field"}

\* The _distinct_ field of a row: absent, or an object whose CustomerId is
\* absent or a number.
DistinctValues ==
    { [present |-> FALSE, CustomerId |-> Undefined],
      [present |-> TRUE, CustomerId |-> Undefined],
      [present |-> TRUE, CustomerId |-> Num(0)],
      [present |-> TRUE, CustomerId |-> Num(12)] }

Rows == [Country : CountryNames, distinct : DistinctValues]

RowSeqs == UNION { [1..n -> Rows] : n \in 0..MaxRows }

\* The data object of a response: absent, or {customer: [...]}.
NoData == [present |-> FALSE, customer |-> <<>>]
Data(rows) == [present |-> TRUE, customer |-> rows]

NoError == [present |-> FALSE, message |-> ""]
Error(m) == [present |-> TRUE, message |-> m]

-----------------------------------------------------------------------------
\* The client's configuration.
FetchPolicyNetworkOnly == "network-only"

FetchPolicy == "cache-first"

ErrorPolicy == "all"

QueryOptionsPolling == [pollInterval |-> 1000]

\* useQuery(GET_CUSTOMER_COUNTRIES) is called without options: no polling.
QueryOptions == [pollInterval |-> 0]

-----------------------------------------------------------------------------
VARIABLES
    mounted,          \* a CountryFilter instance is mounted
    hook,             \* what useQuery returns to it: loading, error, data
    selectedCountry,  \* its useState value
    cache,            \* the InMemoryCache entry of GetCustomerCountries
    inflight,         \* an HTTP request to /api is outstanding
    transportCalls,   \* requests sent to /api so far
    lastEvent         \* the last operation and its argument (history)

vars == <<mounted, hook, selectedCountry, cache, inflight, transportCalls, lastEvent>>

Idle == [loading |-> FALSE, error |-> NoError, data |-> NoData]
Loading == [loading |-> TRUE, error |-> NoError, data |-> NoData]

Event(op, val) == [op |-> op, val |-> val]

\* A further request follows a response only when the query polls.
Repoll == QueryOptions.pollInterval > 0 /\ transportCalls < MaxCalls

-----------------------------------------------------------------------------
\* The render function of CountryFilter.

\* const countries = data?.customer || [];
Countries(data) == IF data.present THEN data.customer ELSE <<>>

\* item._distinct_?.CustomerId
DistinctCustomerId(item) ==
    IF item.distinct.present THEN item.distinct.CustomerId ELSE Undefined

CustomerCountNoDefault(item) == DistinctCustomerId(item)

\* {item._distinct_?.CustomerId || 0}
CustomerCount(item) == JsOr(DistinctCustomerId(item), Num(0))

OptionValueKey(item, index) == ToString(index - 1)

\* <Option key={index} text={item.Country}>: the option's value is its text.
OptionValue(item, index) == item.Country

OptionView(item, index) ==
    [text |-> item.Country,
     value |-> OptionValue(item, index),
     count |-> CustomerCount(item)]

\* countries.map((item, index) => <Option ...>)
Options(countries) == [i \in 1..Len(countries) |-> OptionView(countries[i], i)]

\* {selectedCountry && (<div>Selected: <strong>{selectedCountry}</strong></div>)}
Echo(sel) ==
    IF Truthy(sel) THEN [shown |-> TRUE, text |-> sel.str]
    ELSE [shown |-> FALSE, text |-> ""]

NoEcho == [shown |-> FALSE, text |-> ""]

BranchDataFirst(h) ==
    IF h.loading THEN "loading"
    ELSE IF h.error.present /\ ~h.data.present THEN "error"
    ELSE "populated"

\* if (loading) return ...; if (error) return ...; else the card.
Branch(h) ==
    IF h.loading THEN "loading"
    ELSE IF h.error.present THEN "error"
    ELSE "populated"

HasOptionsAlways(countries) == TRUE

\* countries.length > 0 ? <Dropdown> : <Text>No country data available</Text>
HasOptions(countries) == Len(countries) > 0

Render(h, sel) ==
    LET countries == Countries(h.data) IN
    CASE Branch(h) = "loading" ->
            [kind |-> "loading", errorText |-> "", dropdown |-> FALSE,
             options |-> <<>>, noData |-> FALSE, echo |-> NoEcho]
      [] Branch(h) = "error" ->
            [kind |-> "error", errorText |-> h.error.message, dropdown |-> FALSE,
             options |-> <<>>, noData |-> FALSE, echo |-> NoEcho]
      [] OTHER ->
            [kind |-> "populated", errorText |-> "",
             dropdown |-> HasOptions(countries),
             options |-> IF HasOptions(countries) THEN Options(countries) ELSE <<>>,
             noData |-> ~HasOptions(countries),
             echo |-> Echo(sel)]

View == Render(hook, selectedCountry)

-----------------------------------------------------------------------------
Init ==
    /\ mounted = FALSE
    /\ hook = Idle
    /\ selectedCountry = Str("")
    /\ cache = NoData
    /\ inflight = FALSE
    /\ transportCalls = 0
    /\ lastEvent = Event("init", "")

\* The component mounts: useState('') and useQuery(GET_CUSTOMER_COUNTRIES).
\* Under cache-first a cached result is returned at once and nothing is sent;
\* otherwise the query goes to /api and the hook reports loading.
Mount ==
    /\ ~mounted
    /\ mounted' = TRUE
    /\ selectedCountry' = Str("")
    /\ IF FetchPolicy = "cache-first" /\ cache.present
       THEN /\ hook' = [loading |-> FALSE, error |-> NoError, data |-> cache]
            /\ UNCHANGED <<inflight, transportCalls>>
       ELSE /\ transportCalls < MaxCalls
            /\ hook' = Loading
            /\ inflight' = TRUE
            /\ transportCalls' = transportCalls + 1
    /\ lastEvent' = Event("mount", "")
    /\ UNCHANGED cache

\* The component unmounts: its state is dropped, the hook unsubscribes and
\* the outstanding request is abandoned.
Unmount ==
    /\ mounted
    /\ mounted' = FALSE
    /\ hook' = Idle
    /\ selectedCountry' = Str("")
    /\ inflight' = FALSE
    /\ lastEvent' = Event("unmount", "")
    /\ UNCHANGED <<cache, transportCalls>>

\* /api answers {data: {customer: rows}}.
NetworkSuccess(rows) ==
    /\ mounted /\ inflight
    /\ inflight' = Repoll
    /\ transportCalls' = IF Repoll THEN transportCalls + 1 ELSE transportCalls
    /\ cache' = Data(rows)
    /\ hook' = [loading |-> FALSE, error |-> NoError, data |-> Data(rows)]
    /\ lastEvent' = Event("success", "")
    /\ UNCHANGED <<mounted, selectedCountry>>

\* The request fails (unreachable, non-2xx) or its body is not JSON.
NetworkFault(m) ==
    /\ mounted /\ inflight
    /\ inflight' = Repoll
    /\ transportCalls' = IF Repoll THEN transportCalls + 1 ELSE transportCalls
    /\ hook' = [loading |-> FALSE, error |-> Error(m), data |-> NoData]
    /\ lastEvent' = Event("networkFault", m)
    /\ UNCHANGED <<mounted, selectedCountry, cache>>

\* /api answers {errors: [...]}, with or without (partial) data.  Under
\* errorPolicy 'all' the data is kept beside the error and written to the cache.
BackendFault(m, d) ==
    /\ mounted /\ inflight
    /\ inflight' = Repoll
    /\ transportCalls' = IF Repoll THEN transportCalls + 1 ELSE transportCalls
    /\ LET kept == IF ErrorPolicy = "all" THEN d ELSE NoData IN
        /\ hook' = [loading |-> FALSE, error |-> Error(m), data |-> kept]
        /\ cache' = IF kept.present THEN kept ELSE cache
    /\ lastEvent' = Event("backendFault", m)
    /\ UNCHANGED <<mounted, selectedCountry>>

\* const handleCountryChange = (event, data) => setSelectedCountry(data.optionValue)
handleCountryChange(data) ==
    /\ selectedCountry' = data.optionValue

\* The user picks the i-th option of the Dropdown.
SelectOption(i) ==
    /\ mounted /\ View.dropdown
    /\ i \in 1..Len(View.options)
    /\ handleCountryChange([optionValue |-> Str(View.options[i].value)])
    /\ lastEvent' = Event("select", View.options[i].text)
    /\ UNCHANGED <<mounted, hook, cache, inflight, transportCalls>>

\* The user clears the Dropdown (clearable): onOptionSelect with no option.
ClearSelection ==
    /\ mounted /\ View.dropdown
    /\ handleCountryChange([optionValue |-> Undefined])
    /\ lastEvent' = Event("clear", "")
    /\ UNCHANGED <<mounted, hook, cache, inflight, transportCalls>>

Next ==
    \/ Mount
    \/ Unmount
    \/ \E rows \in RowSeqs : NetworkSuccess(rows)
    \/ \E m \in FaultMessages : NetworkFault(m)
    \/ \E m \in BackendMessages, d \in {NoData} \cup {Data(r) : r \in RowSeqs} :
          BackendFault(m, d)
    \/ \E i \in 1..MaxRows : SelectOption(i)
    \/ ClearSelection

Spec == Init /\ [][Next]_vars

-----------------------------------------------------------------------------
\* The selection is empty ('' or undefined) when it is not truthy.
SelectionEmpty == ~Truthy(selectedCountry)

\* The hook holds a result without error: the latest Succeeded result.
Succeeded == mounted /\ ~hook.loading /\ ~hook.error.present /\ hook.data.present

Failed == mounted /\ ~hook.loading /\ hook.error.present

\* C1: in every reachable state selectedCountry is empty or is the Country of
\* some row of the latest Succeeded query result.
C1_SelectionInLatestResult ==
    SelectionEmpty \/
        /\ Succeeded
        /\ selectedCountry.tag = "string"
        /\ \E i \in 1..Len(hook.data.customer) :
              hook.data.customer[i].Country = selectedCountry.str

\* C1 witness: the user has selected a country and the selection is non-empty.
C1_Witness ==
    /\ lastEvent.op = "select"
    /\ Truthy(selectedCountry)
    /\ Len(hook.data.customer) = 2

\* C2: while an instance stays mounted its query state moves only from
\* Loading to Failed or from Loading to Succeeded; once Failed or Succeeded
\* the result no longer changes and no request is outstanding, until the
\* component is mounted again.
C2_TerminalStates ==
    [][ (mounted /\ mounted') =>
          /\ (Failed \/ Succeeded) => (hook' = hook /\ ~inflight')
          /\ hook.loading => (hook' = hook \/ Failed' \/ Succeeded')
          /\ (hook.loading /\ ~Failed /\ ~Succeeded)
               \/ (Failed /\ ~hook.loading /\ ~Succeeded)
               \/ (Succeeded /\ ~hook.loading /\ ~Failed)
          /\ View.kind = (IF hook.loading THEN "loading"
                          ELSE IF Failed THEN "error" ELSE "populated") ]_vars

\* C2 witness: the second query attempt (after a remount) has gone from
\* Loading to Failed.
C2_Witness ==
    /\ Failed
    /\ lastEvent.op = "networkFault"
    /\ transportCalls = 2

C4_FailedRendersError ==
    /\ lastEvent.op \in {"networkFault", "backendFault"} =>
          Failed /\ hook.error = Error(lastEvent.val)
    /\ Failed =>
          /\ View.kind = "error"
          /\ View.errorText = hook.error.message
          /\ ~View.dropdown
          /\ Len(View.options) = 0
          /\ ~View.noData
          /\ ~View.echo.shown

\* C4 witness: the backend answered errors beside partial data with rows.
C4_Witness ==
    /\ Failed
    /\ lastEvent.op = "backendFault"
    /\ hook.data.present
    /\ Len(hook.data.customer) > 0

\* C5: selecting the option of country c sets the selection to c and renders
\* the echo of c; clearing empties the selection and removes the echo; the
\* echo is rendered exactly when a selection has been made and not cleared.
C5_SelectSetsAndEchoes ==
    /\ lastEvent.op = "select" =>
          /\ selectedCountry = Str(lastEvent.val)
          /\ View.echo = [shown |-> TRUE, text |-> lastEvent.val]
    /\ lastEvent.op = "clear" =>
          /\ SelectionEmpty
          /\ ~View.echo.shown
    /\ (mounted /\ View.kind = "populated") =>
          (View.echo.shown <=> ~SelectionEmpty)

\* C6: a Succeeded result with n >= 1 rows renders exactly n options in
\* order, the i-th with the i-th row's Country and CustomerId count, 0 when
\* _distinct_ or CustomerId is absent; no row is merged or dropped.
C6_OptionsMirrorRows ==
    (Succeeded /\ Len(hook.data.customer) >= 1) =>
        LET rows == hook.data.customer IN
        /\ View.dropdown
        /\ Len(View.options) = Len(rows)
        /\ \A i \in 1..Len(rows) :
              /\ View.options[i].text = rows[i].Country
              /\ View.options[i].count =
                    (IF rows[i].distinct.present
                        /\ rows[i].distinct.CustomerId.tag = "number"
                     THEN Num(rows[i].distinct.CustomerId.num)
                     ELSE Num(0))

\* C6 witness: two rows with the same empty Country, the first without
\* _distinct_, the second with a count.
C6_Witness ==
    /\ Succeeded
    /\ Len(hook.data.customer) = 2
    /\ hook.data.customer[1].Country = ""
    /\ hook.data.customer[2].Country = ""
    /\ ~hook.data.customer[1].distinct.present
    /\ hook.data.customer[2].distinct.CustomerId = Num(12)

\* C7: a successful result with zero rows is rendered as the populated card
\* with the no-data text and no selection control, and not as an error.
C7_EmptyIsNoData ==
    (Succeeded /\ Len(hook.data.customer) = 0) =>
        /\ View.kind = "populated"
        /\ View.noData
        /\ ~View.dropdown
        /\ Len(View.options) = 0
        /\ View.errorText = ""
        /\ ~Failed

\* C7 witness: the query has just completed with {customer: []}.
C7_Witness ==
    /\ Succeeded
    /\ lastEvent.op = "success"
    /\ hook.data.customer = <<>>

====
